---- MODULE Spec2Model ----
(***************************************************************************)
(* A model of src/src/v8_py_frontend/js_callback_maker.cc: the process-wide *)
(* JSCallbackCallerRegistry (a mutex, a map from caller id to a shared      *)
(* JSCallbackCaller, and the next_id_ counter), the JSCallbackCallerHolder  *)
(* that registers at construction and unregisters at destruction, and the  *)
(* JSCallbackMaker whose MakeJSCallback builds function objects and whose   *)
(* OnCalledStatic decodes their data and routes the call to the caller.     *)
(*                                                                         *)
(* Threads run the operations one source statement group at a time, so the *)
(* interleavings of the lock-protected sections are those of the code.      *)
(***************************************************************************)
EXTENDS Integers, Sequences, FiniteSets, TLC

(***************************************************************************)
(* Bounds of the model.                                                    *)
(***************************************************************************)
\* At most this many Register calls are begun in a behaviour, so next_id_
\* stays far below 2^64, where the uint64_t counter would wrap.
MaxRegister == 2
\* At most this many function objects are created by MakeJSCallback.
MaxFunctions == 1

\* Two threads: every operation of one interleaves with every operation of
\* the other.
Threads == {1, 2}
NoThread == 0

\* Identifiers handed to the registry directly: every id Register can return
\* within the bound, and one more that is never registered.
Ids == 0 .. MaxRegister

\* Unsigned 64-bit values for the encoding of the attached data: zero (a
\* BigInt without digits), small values, and the largest value that TLC's
\* integers hold.
Uint64Samples == {0, 1, 7, 2147483647}

\* Host-assigned callback ids given to MakeJSCallback.
CallbackIds == {7}

\* The (BinaryValueFactory, Callback) pair that thread t constructs makers
\* and registers callers with: each thread is a host with its own.
HostOf(t) == [bv_factory |-> << "bv", t >>, callback |-> << "cb", t >>]

(***************************************************************************)
(* V8 values, as far as the code inspects them.                             *)
(***************************************************************************)
Undefined == [type |-> "undefined"]

StringValue(s) == [type |-> "string", v |-> s]

\* A BigInt is a sign and a little-endian sequence of 64-bit digits without
\* leading zeros; zero has no digits.
BigIntValue(sign, digits) == [type |-> "bigint", sign |-> sign, digits |-> digits]

ArrayValue(elems) == [type |-> "array", elems |-> elems]

\* An array element whose read raises a script exception (an accessor); the
\* MaybeLocal that Array::Get returns for it is empty.
ThrowingElement == [type |-> "throwing_accessor"]

\* MaybeLocal<T> and std::shared_ptr<T>: empty, or holding one value.
Empty == << >>

Just(v) == << v >>

IsEmpty(m) == m = << >>

\* v8::BigInt::NewFromUnsigned(isolate, value)
BigIntNewFromUnsigned(value) ==
    BigIntValue(FALSE, IF value = 0 THEN << >> ELSE << value >>)

\* A decoding that never reports a loss.
Uint64Value_IgnoreLoss(b) ==
    [ value    |-> IF Len(b.digits) = 0 THEN 0 ELSE b.digits[1],
      lossless |-> TRUE ]

\* v8::BigInt::Uint64Value(&lossless): the low 64-bit digit, and whether the
\* BigInt is non-negative and fits in one digit.  (For a negative BigInt V8
\* returns the two's complement of the digit; the code discards the value
\* whenever lossless is false.)
Uint64Value(b) ==
    [ value    |-> IF Len(b.digits) = 0 THEN 0 ELSE b.digits[1],
      lossless |-> (~ b.sign) /\ Len(b.digits) <= 1 ]

IsArray(v) == v.type = "array"

IsBigInt(v) == v.type = "bigint"

\* v8::Array::Length()
ArrayLength(a) == Len(a.elems)

\* An element read that counts the index from 1.
ArrayGet_OneBased(a, index) ==
    IF index < 1 \/ index > Len(a.elems) THEN Just(Undefined)
    ELSE IF a.elems[index].type = "throwing_accessor" THEN Empty
    ELSE Just(a.elems[index])

\* v8::Array::Get(context, index), index counted from 0.
ArrayGet(a, index) ==
    IF index >= Len(a.elems) THEN Just(Undefined)
    ELSE IF a.elems[index + 1].type = "throwing_accessor" THEN Empty
    ELSE Just(a.elems[index + 1])

\* info[i] of v8::FunctionCallbackInfo: the i-th argument, undefined past
\* the end.
InfoAt(info_args, i) ==
    IF i < Len(info_args) THEN info_args[i + 1] ELSE Undefined

NumberValue(n) == [type |-> "number", v |-> n]

\* The argument lists of the script calls: none, and several.
ArgLists ==
    { << >>,
      << NumberValue(1), StringValue("a"), NumberValue(1) >> }

\* The argument list of the calls that reach OnCalledStatic with forged data
\* (the decoding does not read the arguments).
ForgedArgs == << StringValue("a"), NumberValue(1) >>

\* Attached data that MakeJSCallback never builds, one value for each silent
\* return of OnCalledStatic.
MalformedData ==
    { Undefined,
      ArrayValue(<< BigIntNewFromUnsigned(0) >>),
      ArrayValue(<< BigIntNewFromUnsigned(0), BigIntNewFromUnsigned(7),
                    BigIntNewFromUnsigned(7) >>),
      ArrayValue(<< ThrowingElement, BigIntNewFromUnsigned(7) >>),
      ArrayValue(<< StringValue("0"), BigIntNewFromUnsigned(7) >>),
      ArrayValue(<< BigIntValue(TRUE, << 1 >>), BigIntNewFromUnsigned(7) >>),
      ArrayValue(<< BigIntValue(FALSE, << 1, 1 >>), BigIntNewFromUnsigned(7) >>),
      ArrayValue(<< BigIntNewFromUnsigned(0), ThrowingElement >>),
      ArrayValue(<< BigIntNewFromUnsigned(0), NumberValue(7) >>),
      ArrayValue(<< BigIntNewFromUnsigned(1), BigIntValue(TRUE, << 7 >>) >>),
      ArrayValue(<< BigIntNewFromUnsigned(0), BigIntValue(FALSE, << 7, 1 >>) >>) }

(***************************************************************************)
(* Pure parts of the code.                                                  *)
(***************************************************************************)
\* A slip in lines 109-110: the two elements in the other order.
MakeData_Swapped(callback_caller_id, callback_id) ==
    ArrayValue(<< BigIntNewFromUnsigned(callback_id),
                  BigIntNewFromUnsigned(callback_caller_id) >>)

\* Data that names the first caller registered, whichever Holder is given.
MakeData_FirstCaller(callback_caller_id, callback_id) ==
    ArrayValue(<< BigIntNewFromUnsigned(0),
                  BigIntNewFromUnsigned(callback_id) >>)

\* The data MakeJSCallback attaches to the function object (lines 105-113).
MakeData(callback_caller_id, callback_id) ==
    ArrayValue(<< BigIntNewFromUnsigned(callback_caller_id),
                  BigIntNewFromUnsigned(callback_id) >>)

\* The decoding of info.Data() in OnCalledStatic, check by check in the
\* order of the code; returned names the return statement taken, or
\* "decoded".
DecodeData(data_value) ==
    LET Result(returned, caller_id, cb_id) ==
            [ returned |-> returned, callback_caller_id |-> caller_id,
              callback_id |-> cb_id ]
    IN  IF ~ IsArray(data_value) THEN Result("not_array", 0, 0)
        ELSE IF ArrayLength(data_value) # 2 THEN Result("bad_length", 0, 0)
        ELSE
          LET callback_caller_id_value_maybe == ArrayGet(data_value, 0)
              callback_id_value_maybe == ArrayGet(data_value, 1)
          IN  IF IsEmpty(callback_caller_id_value_maybe)
                THEN Result("caller_id_absent", 0, 0)
              ELSE IF ~ IsBigInt(callback_caller_id_value_maybe[1])
                THEN Result("caller_id_not_bigint", 0, 0)
              ELSE
                LET caller == Uint64Value(callback_caller_id_value_maybe[1])
                IN  IF ~ caller.lossless
                      THEN Result("caller_id_lossy", 0, 0)
                    ELSE IF IsEmpty(callback_id_value_maybe)
                      THEN Result("callback_id_absent", 0, 0)
                    ELSE IF ~ IsBigInt(callback_id_value_maybe[1])
                      THEN Result("callback_id_not_bigint", 0, 0)
                    ELSE
                      LET cb == Uint64Value(callback_id_value_maybe[1])
                      IN  IF ~ cb.lossless
                            THEN Result("callback_id_lossy", 0, 0)
                          ELSE Result("decoded", caller.value, cb.value)

\* v8::Array::New(context, length, next_value_callback): calls the callback
\* length times and stores what it returns, in call order; the result is
\* empty if the callback returns an empty MaybeLocal.  The callback of
\* OnCalledStatic returns info[idx++], which is never empty.
RECURSIVE ArrayNewLoop(_, _, _, _)
ArrayNewLoop(info_args, length, idx, acc) ==
    IF Len(acc) = length THEN Just(ArrayValue(acc))
    ELSE LET maybe_element == Just(InfoAt(info_args, idx))
         IN  IF IsEmpty(maybe_element) THEN Empty
             ELSE ArrayNewLoop(info_args, length, idx + 1,
                               Append(acc, maybe_element[1]))

\* A slip in line 178: idx starts at 1.
ArgsArray_FromOne(info_args) ==
    ArrayNewLoop(info_args, Len(info_args), 1, << >>)

\* Lines 178-182, before ToLocalChecked: idx starts at 0 and the length is
\* info.Length().
ArgsArray(info_args) ==
    ArrayNewLoop(info_args, Len(info_args), 0, << >>)

\* std::make_shared<JSCallbackCaller>(bv_factory, callback)
MakeCaller(bv_factory, callback) ==
    [ bv_factory_ |-> bv_factory, callback_ |-> callback ]

\* An assignment of a one-entry map in place of the store.
MapStore_Only(map, id, caller) ==
    [ k \in {id} |-> caller ]

\* A store that assigns the caller to every entry of the map.
MapStore_Everywhere(map, id, caller) ==
    [ k \in (DOMAIN map) \cup {id} |-> caller ]

\* callback_callers_[id] = caller
MapStore(map, id, caller) ==
    [ k \in (DOMAIN map) \cup {id} |-> IF k = id THEN caller ELSE map[k] ]

\* An erase through lower_bound: the first entry whose key is not below id.
MapErase_LowerBound(map, id) ==
    LET above == { k \in DOMAIN map : k >= id }
    IN  IF above = {} THEN map
        ELSE LET first == CHOOSE k \in above : \A j \in above : k <= j
             IN  [ k \in (DOMAIN map) \ {first} |-> map[k] ]

\* An Unregister that forgets the erase.
MapErase_Nothing(map, id) == map

\* callback_callers_.erase(id)
MapErase(map, id) ==
    [ k \in (DOMAIN map) \ {id} |-> map[k] ]

\* A lookup through lower_bound, without comparing the key found.
MapFind_LowerBound(map, id) ==
    LET above == { k \in DOMAIN map : k >= id }
    IN  IF above = {} THEN Empty
        ELSE Just(map[CHOOSE k \in above : \A j \in above : k <= j])

\* callback_callers_.find(id), and the shared_ptr Get returns from it.
MapFind(map, id) ==
    IF id \in DOMAIN map THEN Just(map[id]) ELSE Empty

\* A raw pointer returned in place of a copy of the shared_ptr.
SharedPtrCopy_Borrow(count) == count

\* The use count after a std::shared_ptr to the caller is copied (the
\* return of line 61).
SharedPtrCopy(count) == count + 1

\* The use count after a std::shared_ptr to the caller is destroyed (the
\* map entry erased at line 51, the local of line 184 at lines 188-191);
\* at 0 the caller is released.
SharedPtrRelease(count) == count - 1

\* Register and Unregister without the lock_guard.
CanLock_Always(mutex, t) == TRUE

\* std::lock_guard<std::mutex> lock(mutex_) can be constructed by thread t.
CanLock(mutex, t) == mutex = NoThread

\* A lock taken with mutex_.lock() and never unlocked.
LockGuardRelease_Leak(mutex, t) == mutex

\* The mutex after the lock_guard of Register or Unregister is destroyed.
LockGuardRelease(mutex, t) == NoThread

\* A lock that the caller of Get holds until its own return.
Get_Release_Late(mutex, t) == mutex

\* The mutex after the lock_guard of Get is destroyed, as Get returns
\* (line 62) and before OnCalledStatic goes on at line 186.
Get_Release(mutex, t) == NoThread

\* A slip in line 44: next_id_ without the increment.
NextId_Same(id) == id

\* A counter one bit wide, which wraps at the second increment.
NextId_Narrow(id) == (id + 1) % 2

\* next_id_++ : the value stored back for the id read.
NextId(id) == id + 1

\* Lines 186-190 without the check of the shared_ptr.
AfterGet_NoCheck(callback_caller) == "DoCallback"

\* Lines 186-190: OnCalledStatic returns if Get found no caller, and else
\* enters DoCallback.
AfterGet(callback_caller) ==
    IF IsEmpty(callback_caller) THEN "done" ELSE "DoCallback"

(***************************************************************************)
(* State.                                                                   *)
(***************************************************************************)
VARIABLES
    next_id_,           \* JSCallbackCallerRegistry::next_id_
    callback_callers_,  \* JSCallbackCallerRegistry::callback_callers_
    mutex_,             \* the thread holding JSCallbackCallerRegistry::mutex_
    makers,             \* the JSCallbackMakers constructed so far, in order:
                        \* callback_caller_holder_'s id, bv_factory_, the
                        \* callback the maker was constructed with, and
                        \* whether it is alive, being destroyed or destroyed
    functions,          \* the function objects MakeJSCallback has created
    pc,                 \* each thread's position in the code
    local,              \* each thread's parameters and local variables
    issued,             \* history: the ids assigned by Register, in order
    registered,         \* history: ids registered and not unregistered since
    use_count,          \* the reference count of each JSCallbackCaller made
                        \* (std::shared_ptr::use_count), by the id it was
                        \* registered under; 0 when the caller is released
    stack               \* each thread's suspended frame: empty, or the
                        \* position and locals of the DoCallback whose host
                        \* callback has called back into this code

vars ==
    << next_id_, callback_callers_, mutex_, makers, functions, pc, local,
       issued, registered, use_count, stack >>

Init ==
    /\ next_id_ = 0
    /\ callback_callers_ = << >>
    /\ mutex_ = NoThread
    /\ makers = << >>
    /\ functions = {}
    /\ pc = [t \in Threads |-> "idle"]
    /\ local = [t \in Threads |-> [op |-> "none"]]
    /\ issued = << >>
    /\ registered = {}
    /\ use_count = << >>
    /\ stack = [t \in Threads |-> Empty]

\* No thread has aborted the process.
Running == \A t \in Threads : pc[t] # "fatal"

\* Thread t is between two operations, and not inside a host callback.
Ready(t) == Running /\ pc[t] \in {"idle", "done"} /\ IsEmpty(stack[t])

\* Thread t is at the given position.
At(t, label) == Running /\ pc[t] = label

\* The Register calls begun so far.
RegisterCalls ==
    Len(issued)
    + Cardinality({ t \in Threads :
                      pc[t] \in {"Register_lock", "Register_load",
                                 "Register_store"} })

Goto(t, label) == pc' = [pc EXCEPT ![t] = label]

SetLocal(t, rec) == local' = [local EXCEPT ![t] = rec]

(***************************************************************************)
(* JSCallbackCallerRegistry::Register, entered from a direct call or from   *)
(* the JSCallbackCallerHolder constructor (local[t].op tells which).        *)
(***************************************************************************)
\* Line 43: the lock_guard is constructed.
Register_Lock(t) ==
    /\ UNCHANGED use_count
    /\ UNCHANGED stack
    /\ At(t, "Register_lock")
    /\ CanLock(mutex_, t)
    /\ mutex_' = t
    /\ Goto(t, "Register_load")
    /\ UNCHANGED << next_id_, callback_callers_, makers, functions, local,
                    issued, registered >>

\* Line 44, the read of next_id_++.
Register_Load(t) ==
    /\ UNCHANGED use_count
    /\ UNCHANGED stack
    /\ At(t, "Register_load")
    /\ SetLocal(t, [local[t] EXCEPT !.callback_caller_id = next_id_])
    /\ Goto(t, "Register_store")
    /\ UNCHANGED << next_id_, callback_callers_, mutex_, makers, functions,
                    issued, registered >>

\* Line 44, the write of next_id_++, line 45, and lines 46-47: the
\* lock_guard and context_caller are destroyed, which leaves the map's
\* entry as the one reference to the caller, and the id is returned; in the Holder constructor
\* (lines 67-69) it becomes callback_caller_id_, which completes the
\* JSCallbackMaker constructor (lines 83-85).
Register_Store(t) ==
    /\ UNCHANGED stack
    /\ At(t, "Register_store")
    /\ next_id_' = NextId(local[t].callback_caller_id)
    /\ callback_callers_' =
           MapStore(callback_callers_, local[t].callback_caller_id,
                    local[t].context_caller)
    /\ issued' = Append(issued, local[t].callback_caller_id)
    /\ registered' = registered \cup {local[t].callback_caller_id}
    /\ use_count' =
           [ k \in (DOMAIN use_count) \cup {local[t].callback_caller_id} |->
               IF k = local[t].callback_caller_id THEN 1 ELSE use_count[k] ]
    /\ mutex_' = LockGuardRelease(mutex_, t)
    /\ Goto(t, "done")
    /\ IF local[t].op = "JSCallbackMaker"
         THEN /\ makers' =
                    Append(makers,
                           [ callback_caller_id_ |-> local[t].callback_caller_id,
                             bv_factory_ |-> local[t].context_caller.bv_factory_,
                             callback |-> local[t].context_caller.callback_,
                             state |-> "alive" ])
              /\ SetLocal(t, [ op |-> "JSCallbackMaker",
                               maker |-> Len(makers) + 1 ])
         ELSE /\ UNCHANGED makers
              /\ SetLocal(t, [ op |-> "Register",
                               result |-> local[t].callback_caller_id ])
    /\ UNCHANGED functions

(***************************************************************************)
(* JSCallbackCallerRegistry::Unregister, entered from a direct call or from *)
(* the JSCallbackCallerHolder destructor.                                   *)
(***************************************************************************)
\* Line 50.
Unregister_Lock(t) ==
    /\ UNCHANGED use_count
    /\ UNCHANGED stack
    /\ At(t, "Unregister_lock")
    /\ CanLock(mutex_, t)
    /\ mutex_' = t
    /\ Goto(t, "Unregister_erase")
    /\ UNCHANGED << next_id_, callback_callers_, makers, functions, local,
                    issued, registered >>

\* Lines 51-52.  map::erase returns the number of entries removed, which the
\* code discards; it is kept in local for the claims.  The lock_guard is
\* destroyed; in the Holder destructor (line 73) this ends the destruction
\* of the JSCallbackMaker.
Unregister_Erase(t) ==
    /\ UNCHANGED stack
    /\ At(t, "Unregister_erase")
    /\ callback_callers_' =
           MapErase(callback_callers_, local[t].callback_caller_id)
    /\ registered' = registered \ {local[t].callback_caller_id}
    /\ use_count' =
           [ k \in DOMAIN use_count |->
               IF k \in (DOMAIN callback_callers_) \ (DOMAIN callback_callers_')
                 THEN SharedPtrRelease(use_count[k]) ELSE use_count[k] ]
    /\ SetLocal(t, [local[t] EXCEPT
                      !.erased = Cardinality(DOMAIN callback_callers_)
                                 - Cardinality(DOMAIN callback_callers_')])
    /\ mutex_' = LockGuardRelease(mutex_, t)
    /\ Goto(t, "done")
    /\ IF local[t].op = "~JSCallbackMaker"
         THEN makers' = [makers EXCEPT ![local[t].maker].state = "destroyed"]
         ELSE UNCHANGED makers
    /\ UNCHANGED << next_id_, functions, issued >>

(***************************************************************************)
(* JSCallbackCallerRegistry::Get(id), entered from a direct call or from    *)
(* OnCalledStatic.                                                          *)
(***************************************************************************)
\* Line 56.
Get_Lock(t) ==
    /\ UNCHANGED use_count
    /\ UNCHANGED stack
    /\ At(t, "Get_lock")
    /\ CanLock(mutex_, t)
    /\ mutex_' = t
    /\ Goto(t, "Get_find")
    /\ UNCHANGED << next_id_, callback_callers_, makers, functions, local,
                    issued, registered >>

\* Lines 57-62: the shared_ptr to return is empty or a copy of the entry's;
\* the lock_guard is destroyed, and a direct call is over (it discards the
\* shared_ptr at once, so the use count is as before).  OnCalledStatic keeps
\* the copy in callback_caller and goes on with lines 186-190.
Get_Find(t) ==
    /\ UNCHANGED stack
    /\ At(t, "Get_find")
    /\ LET found == MapFind(callback_callers_, local[t].callback_caller_id)
           next == IF local[t].op = "OnCalledStatic" THEN AfterGet(found)
                   ELSE "done"
       IN  /\ SetLocal(t, [local[t] EXCEPT
                             !.callback_caller = found,
                             !.returned =
                                 IF local[t].op = "OnCalledStatic"
                                    /\ next = "done"
                                   THEN "no_caller" ELSE @])
           /\ Goto(t, next)
           /\ use_count' =
                  IF local[t].op = "OnCalledStatic" /\ ~ IsEmpty(found)
                    THEN [use_count EXCEPT ![local[t].callback_caller_id] =
                                               SharedPtrCopy(@)]
                    ELSE use_count
    /\ mutex_' = Get_Release(mutex_, t)
    /\ UNCHANGED << next_id_, callback_callers_, makers, functions, issued,
                    registered >>

(***************************************************************************)
(* Direct calls of the registry's three operations.                         *)
(***************************************************************************)
\* Lines 38-42: the caller object is made before the lock is taken.
Call_Register(t) ==
    /\ UNCHANGED use_count
    /\ UNCHANGED stack
    /\ Ready(t)
    /\ RegisterCalls < MaxRegister
    /\ SetLocal(t, [ op |-> "Register",
                     context_caller |-> MakeCaller(HostOf(t).bv_factory,
                                                   HostOf(t).callback),
                     callback_caller_id |-> 0 ])
    /\ Goto(t, "Register_lock")
    /\ UNCHANGED << next_id_, callback_callers_, mutex_, makers, functions,
                    issued, registered >>

\* Line 49.
Call_Unregister(t, id) ==
    /\ UNCHANGED use_count
    /\ UNCHANGED stack
    /\ Ready(t)
    /\ SetLocal(t, [ op |-> "Unregister", callback_caller_id |-> id,
                     erased |-> 0 ])
    /\ Goto(t, "Unregister_lock")
    /\ UNCHANGED << next_id_, callback_callers_, mutex_, makers, functions,
                    issued, registered >>

\* Lines 54-55.
Call_Get(t, id) ==
    /\ UNCHANGED use_count
    /\ UNCHANGED stack
    /\ Ready(t)
    /\ SetLocal(t, [ op |-> "Get", callback_caller_id |-> id,
                     callback_caller |-> Empty, returned |-> "Get" ])
    /\ Goto(t, "Get_lock")
    /\ UNCHANGED << next_id_, callback_callers_, mutex_, makers, functions,
                    issued, registered >>

\* The registry under direct calls from every thread.
NextRegistry ==
    \E t \in Threads :
        \/ Call_Register(t)
        \/ \E id \in Ids : Call_Unregister(t, id)
        \/ \E id \in Ids : Call_Get(t, id)
        \/ Register_Lock(t)
        \/ Register_Load(t)
        \/ Register_Store(t)
        \/ Unregister_Lock(t)
        \/ Unregister_Erase(t)
        \/ Get_Lock(t)
        \/ Get_Find(t)

SpecRegistry == Init /\ [][NextRegistry]_vars

(***************************************************************************)
(* JSCallbackMaker: construction, MakeJSCallback, OnCalledStatic and        *)
(* destruction.                                                             *)
(***************************************************************************)
\* BinaryValueFactory::New(context, value): a BinaryValue made by the given
\* factory that refers to the V8 value.
BinaryValueNew(bv_factory, value) ==
    [ factory |-> bv_factory, value |-> value ]

\* Data that reaches OnCalledStatic without a function object of
\* MakeJSCallback behind it.
\* function objects of makers are numbered from 1, so maker 0 is none.
Forged ==
    { [maker |-> 0, callback_id |-> 0, data |-> d] : d \in MalformedData }
    \cup { [maker |-> 0, callback_id |-> 7, data |-> MakeData(MaxRegister, 7)] }

\* Lines 79-85 and 64-69, up to the make_shared of Register (lines 41-42).
JSCallbackMaker_Construct(t) ==
    /\ UNCHANGED use_count
    /\ UNCHANGED stack
    /\ Ready(t)
    /\ RegisterCalls < MaxRegister
    /\ SetLocal(t, [ op |-> "JSCallbackMaker",
                     context_caller |-> MakeCaller(HostOf(t).bv_factory,
                                                   HostOf(t).callback),
                     callback_caller_id |-> 0 ])
    /\ Goto(t, "Register_lock")
    /\ UNCHANGED << next_id_, callback_callers_, mutex_, makers, functions,
                    issued, registered >>

\* The destructor of maker m begins: its members are destroyed in reverse
\* order, callback_caller_holder_ first (lines 71-72).
JSCallbackMaker_Destroy(t, m) ==
    /\ UNCHANGED use_count
    /\ UNCHANGED stack
    /\ Ready(t)
    /\ makers[m].state = "alive"
    /\ makers' = [makers EXCEPT ![m].state = "destroying"]
    /\ SetLocal(t, [ op |-> "~JSCallbackMaker", maker |-> m,
                     callback_caller_id |-> makers[m].callback_caller_id_,
                     erased |-> 0 ])
    /\ Goto(t, "Unregister_lock")
    /\ UNCHANGED << next_id_, callback_callers_, mutex_, functions, issued,
                    registered >>

\* Lines 87-120.  function_new is what Function::New returned: a function,
\* or an empty MaybeLocal, on which ToLocalChecked (line 117) aborts the
\* process.
MakeJSCallback(t, m, callback_id, function_new) ==
    /\ UNCHANGED use_count
    /\ UNCHANGED stack
    /\ Ready(t)
    /\ makers[m].state = "alive"
    /\ LET data == MakeData(makers[m].callback_caller_id_, callback_id)
           func == [ maker |-> m, callback_id |-> callback_id, data |-> data ]
       IN  /\ Cardinality(functions \cup {func}) <= MaxFunctions
           /\ IF function_new = "function"
                THEN /\ functions' = functions \cup {func}
                     /\ SetLocal(t, [ op |-> "MakeJSCallback",
                                      function_new |-> function_new,
                                      result |-> BinaryValueNew(
                                                     makers[m].bv_factory_, func) ])
                     /\ Goto(t, "done")
                ELSE /\ UNCHANGED functions
                     /\ SetLocal(t, [ op |-> "MakeJSCallback",
                                      function_new |-> function_new ])
                     /\ Goto(t, "fatal")
    /\ UNCHANGED << next_id_, callback_callers_, mutex_, makers, issued,
                    registered >>

\* Lines 122-185: script code calls function object func (or the entry
\* point is reached with forged data) with arguments info_args.  The data is
\* decoded, and every failed check returns; then the argument array is built
\* (an empty MaybeLocal would abort the process in ToLocalChecked, line
\* 182), and line 185 calls Get.  owner_destroyed records whether the maker
\* of func was already destroyed when the call began.
OnCalledStatic(t, func, info_args) ==
    /\ UNCHANGED use_count
    /\ UNCHANGED stack
    /\ Ready(t)
    /\ LET d == DecodeData(func.data)
           decoded == d.returned = "decoded"
           args_maybe == ArgsArray(info_args)
       IN  /\ SetLocal(t, [ op |-> "OnCalledStatic",
                            function |-> func,
                            info_args |-> info_args,
                            owner_destroyed |->
                                IF func.maker = 0 THEN FALSE
                                ELSE makers[func.maker].state = "destroyed",
                            returned |-> d.returned,
                            callback_caller_id |-> d.callback_caller_id,
                            callback_id |-> d.callback_id,
                            args |-> IF decoded /\ ~ IsEmpty(args_maybe)
                                       THEN args_maybe[1] ELSE Undefined,
                            callback_caller |-> Empty,
                            called |-> << >> ])
           /\ Goto(t, IF ~ decoded THEN "done"
                      ELSE IF IsEmpty(args_maybe) THEN "fatal"
                      ELSE "Get_lock")
    /\ UNCHANGED << next_id_, callback_callers_, mutex_, makers, functions,
                    issued, registered >>

\* Line 190 and lines 27-32: the caller is dereferenced (a null shared_ptr
\* would crash here), the arguments are converted by the caller's factory
\* and the host callback is called with the callback id and the converted
\* value; called records the call.  Line 191 then returns, which destroys
\* callback_caller.
DoCallback(t) ==
    /\ UNCHANGED stack
    /\ At(t, "DoCallback")
    /\ IF IsEmpty(local[t].callback_caller)
         THEN /\ UNCHANGED << local, use_count >>
              /\ Goto(t, "fatal")
         ELSE /\ LET caller == local[t].callback_caller[1]
                     args_ptr == BinaryValueNew(caller.bv_factory_,
                                                local[t].args)
                 IN  SetLocal(t, [local[t] EXCEPT
                                    !.returned = "called",
                                    !.called =
                                        Append(@, [ callback |-> caller.callback_,
                                                    callback_id |->
                                                        local[t].callback_id,
                                                    args |-> args_ptr ])])
              /\ use_count' =
                     [use_count EXCEPT ![local[t].callback_caller_id] =
                                           SharedPtrRelease(@)]
              /\ Goto(t, "done")
    /\ UNCHANGED << next_id_, callback_callers_, mutex_, makers, functions,
                    issued, registered >>

\* The program: hosts construct and destroy makers and create function
\* objects, and script code calls them, on every thread.
Next ==
    \E t \in Threads :
        \/ JSCallbackMaker_Construct(t)
        \/ \E m \in 1 .. Len(makers) : JSCallbackMaker_Destroy(t, m)
        \/ \E m \in 1 .. Len(makers), callback_id \in CallbackIds,
              function_new \in {"function", "empty"} :
              MakeJSCallback(t, m, callback_id, function_new)
        \/ \E func \in functions, info_args \in ArgLists :
              OnCalledStatic(t, func, info_args)
        \/ DoCallback(t)
        \/ Register_Lock(t)
        \/ Register_Load(t)
        \/ Register_Store(t)
        \/ Unregister_Lock(t)
        \/ Unregister_Erase(t)
        \/ Get_Lock(t)
        \/ Get_Find(t)

Spec == Init /\ [][Next]_vars

\* The entry point under every kind of attached data: makers are constructed
\* and function objects created, and OnCalledStatic is reached with their
\* data and with forged data.
NextForged ==
    \E t \in Threads :
        \/ JSCallbackMaker_Construct(t)
        \/ \E m \in 1 .. Len(makers), callback_id \in CallbackIds,
              function_new \in {"function", "empty"} :
              MakeJSCallback(t, m, callback_id, function_new)
        \/ \E func \in functions, info_args \in ArgLists :
              OnCalledStatic(t, func, info_args)
        \/ \E func \in Forged : OnCalledStatic(t, func, ForgedArgs)
        \/ DoCallback(t)
        \/ Register_Lock(t)
        \/ Register_Load(t)
        \/ Register_Store(t)
        \/ Get_Lock(t)
        \/ Get_Find(t)

SpecForged == Init /\ [][NextForged]_vars

(***************************************************************************)
(* Host callbacks that call back into this code.  callback_ (line 31) is    *)
(* the host's function: while it runs inside DoCallback it may construct or *)
(* destroy a JSCallbackMaker, or run script that calls a function object.   *)
(* The DoCallback frame is suspended in stack until the nested call is      *)
(* over.                                                                    *)
(***************************************************************************)
\* The frame of thread t, suspended at line 31 until the nested call returns.
Suspended(t) == Just([ pc |-> "callback_return", local |-> local[t] ])

\* Line 190 and lines 27-31, for a host callback that calls back: the
\* arguments are converted and callback_ is entered.
DoCallback_Enter(t) ==
    /\ UNCHANGED use_count
    /\ At(t, "DoCallback")
    /\ IsEmpty(stack[t])
    /\ ~ IsEmpty(local[t].callback_caller)
    /\ LET caller == local[t].callback_caller[1]
           args_ptr == BinaryValueNew(caller.bv_factory_, local[t].args)
       IN  SetLocal(t, [local[t] EXCEPT
                          !.called =
                              Append(@, [ callback |-> caller.callback_,
                                          callback_id |-> local[t].callback_id,
                                          args |-> args_ptr ])])
    /\ Goto(t, "callback_")
    /\ UNCHANGED << next_id_, callback_callers_, mutex_, makers, functions,
                    issued, registered, stack >>

\* The host callback constructs a JSCallbackMaker (lines 79-85, 64-69).
Reenter_Construct(t) ==
    /\ UNCHANGED use_count
    /\ At(t, "callback_")
    /\ RegisterCalls < MaxRegister
    /\ stack' = [stack EXCEPT ![t] = Suspended(t)]
    /\ SetLocal(t, [ op |-> "JSCallbackMaker",
                     context_caller |-> MakeCaller(HostOf(t).bv_factory,
                                                   HostOf(t).callback),
                     callback_caller_id |-> 0 ])
    /\ Goto(t, "Register_lock")
    /\ UNCHANGED << next_id_, callback_callers_, mutex_, makers, functions,
                    issued, registered >>

\* The host callback destroys maker m (lines 71-72), which may be the maker
\* of the function object being called.
Reenter_Destroy(t, m) ==
    /\ UNCHANGED use_count
    /\ At(t, "callback_")
    /\ makers[m].state = "alive"
    /\ stack' = [stack EXCEPT ![t] = Suspended(t)]
    /\ makers' = [makers EXCEPT ![m].state = "destroying"]
    /\ SetLocal(t, [ op |-> "~JSCallbackMaker", maker |-> m,
                     callback_caller_id |-> makers[m].callback_caller_id_,
                     erased |-> 0 ])
    /\ Goto(t, "Unregister_lock")
    /\ UNCHANGED << next_id_, callback_callers_, mutex_, functions, issued,
                    registered >>

\* The host callback runs script that calls function object func: a nested
\* OnCalledStatic (lines 122-185) and so another lookup.
Reenter_OnCalledStatic(t, func, info_args) ==
    /\ UNCHANGED use_count
    /\ At(t, "callback_")
    /\ stack' = [stack EXCEPT ![t] = Suspended(t)]
    /\ LET d == DecodeData(func.data)
           decoded == d.returned = "decoded"
           args_maybe == ArgsArray(info_args)
       IN  /\ SetLocal(t, [ op |-> "OnCalledStatic",
                            function |-> func,
                            info_args |-> info_args,
                            owner_destroyed |->
                                makers[func.maker].state = "destroyed",
                            returned |-> d.returned,
                            callback_caller_id |-> d.callback_caller_id,
                            callback_id |-> d.callback_id,
                            args |-> IF decoded /\ ~ IsEmpty(args_maybe)
                                       THEN args_maybe[1] ELSE Undefined,
                            callback_caller |-> Empty,
                            called |-> << >> ])
           /\ Goto(t, IF ~ decoded THEN "done"
                      ELSE IF IsEmpty(args_maybe) THEN "fatal"
                      ELSE "Get_lock")
    /\ UNCHANGED << next_id_, callback_callers_, mutex_, makers, functions,
                    issued, registered >>

\* The nested call is over: the host callback goes on in its own frame.
Reenter_Return(t) ==
    /\ UNCHANGED use_count
    /\ At(t, "done")
    /\ ~ IsEmpty(stack[t])
    /\ pc' = [pc EXCEPT ![t] = stack[t][1].pc]
    /\ local' = [local EXCEPT ![t] = stack[t][1].local]
    /\ stack' = [stack EXCEPT ![t] = Empty]
    /\ UNCHANGED << next_id_, callback_callers_, mutex_, makers, functions,
                    issued, registered >>

\* Lines 31-32 and 191: the host callback returns, and so do DoCallback and
\* OnCalledStatic, which destroys callback_caller.
DoCallback_Return(t) ==
    /\ At(t, "callback_return")
    /\ SetLocal(t, [local[t] EXCEPT !.returned = "called"])
    /\ use_count' = [use_count EXCEPT ![local[t].callback_caller_id] =
                                          SharedPtrRelease(@)]
    /\ Goto(t, "done")
    /\ UNCHANGED << next_id_, callback_callers_, mutex_, makers, functions,
                    issued, registered, stack >>

\* The steps of thread t that take the mutex (lines 43, 50 and 56).
LockStep(t) ==
    \/ Register_Lock(t)
    \/ Unregister_Lock(t)
    \/ Get_Lock(t)

\* The steps of thread t inside an operation that do not wait for the
\* mutex.
RunStep(t) ==
    \/ Register_Load(t)
    \/ Register_Store(t)
    \/ Unregister_Erase(t)
    \/ Get_Find(t)
    \/ DoCallback(t)
    \/ DoCallback_Enter(t)
    \/ Reenter_Construct(t)
    \/ \E m \in 1 .. Len(makers) : Reenter_Destroy(t, m)
    \/ \E func \in functions : Reenter_OnCalledStatic(t, func, << >>)
    \/ Reenter_Return(t)
    \/ DoCallback_Return(t)

\* The thread that has entered the isolate (lines 124-127): script code, and
\* so OnCalledStatic, runs on it; the other thread is a host thread.
ScriptThread == 1

\* The program with host callbacks that call back: every thread constructs
\* and destroys makers and creates function objects, and the script thread
\* calls them (without arguments: no step after the decoding reads them).
NextFair ==
    \E t \in Threads :
        \/ JSCallbackMaker_Construct(t)
        \/ \E m \in 1 .. Len(makers) : JSCallbackMaker_Destroy(t, m)
        \/ \E m \in 1 .. Len(makers), callback_id \in CallbackIds :
              MakeJSCallback(t, m, callback_id, "function")
        \/ \E func \in functions :
              t = ScriptThread /\ OnCalledStatic(t, func, << >>)
        \/ LockStep(t)
        \/ RunStep(t)

\* Fair scheduling: a thread that can take a step of its operation takes
\* one, and a thread waiting for the mutex gets it if it is free again and
\* again.
Fairness ==
    \A t \in Threads : WF_vars(RunStep(t)) /\ SF_vars(LockStep(t))

SpecFair == Init /\ [][NextFair]_vars /\ Fairness

(***************************************************************************)
(* The encoding of MakeJSCallback and the decoding of OnCalledStatic, on    *)
(* their own: a thread encodes a pair of ids as lines 105-113 do, and then  *)
(* decodes the data as lines 129-176 do.                                    *)
(***************************************************************************)
\* Lines 105-113 for the given pair.
Codec_MakeData(t, callback_caller_id, callback_id) ==
    /\ UNCHANGED << use_count, stack >>
    /\ Ready(t)
    /\ SetLocal(t, [ op |-> "Codec",
                     callback_caller_id |-> callback_caller_id,
                     callback_id |-> callback_id,
                     data |-> MakeData(callback_caller_id, callback_id) ])
    /\ Goto(t, "Codec_decode")
    /\ UNCHANGED << next_id_, callback_callers_, mutex_, makers, functions,
                    issued, registered >>

\* Lines 129-176 on the data made.
Codec_DecodeData(t) ==
    /\ UNCHANGED << use_count, stack >>
    /\ At(t, "Codec_decode")
    /\ SetLocal(t, [ op |-> "Codec",
                     callback_caller_id |-> local[t].callback_caller_id,
                     callback_id |-> local[t].callback_id,
                     data |-> local[t].data,
                     decoded |-> DecodeData(local[t].data) ])
    /\ Goto(t, "done")
    /\ UNCHANGED << next_id_, callback_callers_, mutex_, makers, functions,
                    issued, registered >>

NextCodec ==
    \E t \in Threads :
        \/ \E callback_caller_id \in Uint64Samples, callback_id \in Uint64Samples :
              Codec_MakeData(t, callback_caller_id, callback_id)
        \/ Codec_DecodeData(t)

SpecCodec == Init /\ [][NextCodec]_vars

(***************************************************************************)
(* The claims.                                                              *)
(***************************************************************************)
IssuedIds == { issued[i] : i \in 1 .. Len(issued) }

\* Thread t has completed the operation op.
Done(t, op) == pc[t] = "done" /\ local[t].op = op

\* C1: whenever Get(id) returns, it returns a caller if and only if id was
\* assigned by a Register call and not passed to Unregister since (the
\* history variable registered): no stale hit and no phantom miss.
C1_GetHitsIffRegistered ==
    [][ \A t \in Threads :
          (pc[t] = "Get_find" /\ pc'[t] # "Get_find")
          => ((~ IsEmpty(local'[t].callback_caller))
              <=> (local[t].callback_caller_id \in registered)) ]_vars

\* C1: one Get found an id while it was registered, and another Get missed
\* the same id after it was unregistered.
C1_Witness ==
    \E t, u \in Threads :
        /\ t # u
        /\ Done(t, "Get") /\ ~ IsEmpty(local[t].callback_caller)
        /\ Done(u, "Get") /\ IsEmpty(local[u].callback_caller)
        /\ local[u].callback_caller_id = local[t].callback_caller_id

\* C2: a call of a function object that began after its maker was destroyed
\* goes only through the lookup, makes no host callback, does not abort,
\* and returns because Get found no caller.
C2_NoCallbackAfterDestruction ==
    \A t \in Threads :
        (local[t].op = "OnCalledStatic" /\ local[t].owner_destroyed)
        => /\ pc[t] \in {"Get_lock", "Get_find", "done"}
           /\ local[t].called = << >>
           /\ (pc[t] = "done" => local[t].returned = "no_caller")

\* C2: such a call has returned, while another caller is still registered.
C2_Witness ==
    \E t \in Threads :
        /\ Done(t, "OnCalledStatic")
        /\ local[t].owner_destroyed
        /\ registered # {}

\* C3: a call of a function object makes at most one host callback, and
\* when it has returned with its maker not destroyed it has made exactly
\* one: to the callback the maker was constructed with, with the callback
\* id given to MakeJSCallback, and with the conversion (by the maker's
\* factory) of an array of the call's arguments in their order.
C3_CalledOnceWithSameArguments ==
    \A t \in Threads :
        (local[t].op = "OnCalledStatic" /\ local[t].function.maker # 0)
        => LET f == local[t].function
               m == makers[f.maker]
           IN  /\ Len(local[t].called) <= 1
               /\ (pc[t] = "done" /\ m.state # "destroyed")
                  => local[t].called =
                       << [ callback |-> m.callback,
                            callback_id |-> f.callback_id,
                            args |-> BinaryValueNew(
                                         m.bv_factory_,
                                         ArrayValue(local[t].info_args)) ] >>

\* C3: one call without arguments and one with several have each made
\* their host callback.
C3_Witness ==
    \E t, u \in Threads :
        /\ Done(t, "OnCalledStatic") /\ Len(local[t].called) = 1
        /\ local[t].info_args = << >>
        /\ Done(u, "OnCalledStatic") /\ Len(local[u].called) = 1
        /\ Len(local[u].info_args) > 1

\* C4: the ids assigned by Register, in the order of assignment, are
\* strictly increasing, so none is assigned twice.
C4_IdsStrictlyIncreasing ==
    \A i, j \in 1 .. Len(issued) : i < j => issued[i] < issued[j]

\* C4: two ids were assigned, and the first was unregistered.
C4_Witness ==
    /\ Len(issued) >= 2
    /\ issued[1] \notin registered
    /\ issued[2] \in registered

\* C5: under every interleaving of the threads' Register and Unregister
\* calls no id is assigned twice, and the map holds exactly the ids
\* registered and not unregistered since.
C5_RegistryNotCorrupted ==
    /\ \A i, j \in 1 .. Len(issued) : i # j => issued[i] # issued[j]
    /\ DOMAIN callback_callers_ = registered
    /\ Cardinality(registered) <= Len(issued)

\* C5: one thread is inside the locked section of Register while another
\* waits for the lock to unregister a registered id.
C5_Witness ==
    \E t, u \in Threads :
        /\ pc[t] = "Register_store"
        /\ pc[u] = "Unregister_lock"
        /\ local[u].callback_caller_id \in registered

\* C6: an Unregister of an id that is not registered (unregistered before,
\* or never registered) changes neither the map nor next_id_.
C6_UnregisterAbsentChangesNothing ==
    [][ \A t \in Threads :
          (pc[t] = "Unregister_erase" /\ pc'[t] = "done"
           /\ local[t].callback_caller_id \notin registered)
          => (callback_callers_' = callback_callers_ /\ next_id_' = next_id_)
      ]_vars

\* C6: one Unregister of an id unregistered before and one of an id never
\* registered have both returned, having erased nothing, while another id
\* is registered.
C6_Witness ==
    \E t, u \in Threads :
        /\ Done(t, "Unregister") /\ local[t].erased = 0
        /\ local[t].callback_caller_id \in IssuedIds
        /\ Done(u, "Unregister") /\ local[u].erased = 0
        /\ local[u].callback_caller_id \notin IssuedIds
        /\ registered # {}

\* C7: the caller id encoded in a function object's data is a key of the
\* registry's map if and only if the function's maker is not destroyed.
C7_ResolvableIffOwnerNotDestroyed ==
    \A f \in functions :
        (/\ DecodeData(f.data).returned = "decoded"
         /\ DecodeData(f.data).callback_caller_id \in DOMAIN callback_callers_)
        <=> makers[f.maker].state # "destroyed"

\* C7: a function object has outlived its maker, and another maker's caller
\* is registered.
C7_Witness ==
    \E f \in functions :
        /\ makers[f.maker].state = "destroyed"
        /\ callback_callers_ # << >>

\* C8: a call whose data is malformed (not an array of two elements, an
\* element absent or not a BigInt, or a BigInt that is negative or wider
\* than 64 bits) returns at once: it never reaches the lookup and makes no
\* host callback.
C8_MalformedDataNeverCalls ==
    \A t \in Threads :
        (local[t].op = "OnCalledStatic"
         /\ local[t].function \in Forged
         /\ local[t].function.data \in MalformedData)
        => /\ pc[t] = "done"
           /\ local[t].called = << >>
           /\ IsEmpty(local[t].callback_caller)
           /\ local[t].returned \notin {"decoded", "no_caller", "called"}

\* C8: a call whose first element is a negative BigInt has returned while
\* the caller with the id of its low digit is registered.
C8_Witness ==
    \E t \in Threads :
        /\ Done(t, "OnCalledStatic")
        /\ local[t].returned = "caller_id_lossy"
        /\ local[t].function.data.elems[1].sign
        /\ local[t].function.data.elems[1].digits[1] \in registered

\* C9: a thread holds the mutex only inside Register, Unregister or Get,
\* and never while it is in DoCallback.
C9_NoMutexDuringDoCallback ==
    \A t \in Threads :
        /\ pc[t] = "DoCallback" => mutex_ # t
        /\ mutex_ = t => pc[t] \in {"Register_load", "Register_store",
                                    "Unregister_erase", "Get_find"}

\* C9: one thread is in DoCallback while the other holds the mutex.
C9_Witness ==
    \E t, u \in Threads :
        /\ pc[t] = "DoCallback"
        /\ mutex_ = u

\* C10 as stated: no execution ends in a process abort.
C10_NeverFatal ==
    \A t \in Threads : pc[t] # "fatal"

\* C10 as amended: OnCalledStatic never aborts, whatever the data, the
\* arguments and the registry hold: it returns having made one host
\* callback or none.  MakeJSCallback aborts only when Function::New returned
\* an empty MaybeLocal.
C10_FatalOnlyWhenFunctionNewFails ==
    \A t \in Threads :
        /\ pc[t] = "fatal"
           => (local[t].op = "MakeJSCallback"
               /\ local[t].function_new = "empty")
        /\ Done(t, "OnCalledStatic")
           => IF local[t].returned = "called"
                THEN Len(local[t].called) = 1
                ELSE local[t].called = << >>

\* C10: a call with well-formed data for an id that is not registered has
\* returned, and MakeJSCallback then aborted on the other thread.
C10_Witness ==
    \E t, u \in Threads :
        /\ pc[t] = "fatal"
        /\ Done(u, "OnCalledStatic")
        /\ local[u].returned = "no_caller"

\* C11: no thread ever waits for a mutex it holds itself (no nested
\* locking), and under fair scheduling every operation a thread has begun
\* (Register, Unregister and Get inside the Holder's constructor and
\* destructor and inside OnCalledStatic, and the calls a host callback makes
\* back into the registry from inside DoCallback) runs to completion.
C11_EveryOperationCompletes ==
    /\ [](\A t \in Threads :
            pc[t] \in {"Register_lock", "Unregister_lock", "Get_lock"}
            => mutex_ # t)
    /\ \A t \in Threads :
          (pc[t] \notin {"idle", "done"} \/ ~ IsEmpty(stack[t]))
          ~> (pc[t] = "done" /\ IsEmpty(stack[t]))

\* C11: a host callback running inside DoCallback is destroying a maker and
\* waits for the mutex, which the other thread holds.
C11_Witness ==
    \E t, u \in Threads :
        /\ ~ IsEmpty(stack[t])
        /\ pc[t] = "Unregister_lock"
        /\ mutex_ = u

\* The makers whose Holder has registered and has not yet unregistered.
LiveHolders == { m \in 1 .. Len(makers) : makers[m].state # "destroyed" }

\* C12: every Holder has registered once (the Register calls are as many as
\* the Holders, and no two Holders hold the same id), its destructor calls
\* Unregister with the id its own Register returned and that call erases
\* exactly its entry, and the keys of the map are exactly the ids held by
\* the live Holders.
C12_OneRegisterOneUnregisterPerHolder ==
    /\ Len(issued) = Len(makers)
    /\ \A m \in 1 .. Len(makers) : makers[m].callback_caller_id_ = issued[m]
    /\ \A m, n \in 1 .. Len(makers) :
          m # n => makers[m].callback_caller_id_ # makers[n].callback_caller_id_
    /\ \A t \in Threads :
          local[t].op = "~JSCallbackMaker"
          => /\ local[t].callback_caller_id
                  = makers[local[t].maker].callback_caller_id_
             /\ (pc[t] = "done" => local[t].erased = 1)
             /\ (pc[t] # "done" => makers[local[t].maker].state = "destroying")
    /\ DOMAIN callback_callers_
          = { makers[m].callback_caller_id_ : m \in LiveHolders }

\* C12: the first Holder's destructor has returned while the second Holder
\* is alive.
C12_Witness ==
    \E t \in Threads :
        /\ Done(t, "~JSCallbackMaker")
        /\ local[t].maker = 1
        /\ Len(makers) >= 2
        /\ makers[2].state = "alive"

\* C13 as stated: no thread is on its way from the lookup into the host
\* callback (past the check of line 186, at line 190) of a function object
\* whose Holder's Unregister has completed; the callback such a thread makes
\* begins after that Unregister.
C13_NoCallbackAfterUnregister ==
    \A t \in Threads :
        (local[t].op = "OnCalledStatic" /\ pc[t] = "DoCallback")
        => makers[local[t].function.maker].state # "destroyed"

\* C13 as amended: a call whose lookup (lines 57-61) runs after the Holder's
\* Unregister has completed finds no caller, returns and makes no host
\* callback; a call whose lookup ran before the erase goes on to the host
\* callback, whenever the Unregister completes, and holds the caller its
\* maker registered.
C13_IgnoredWhenLookupFollowsUnregister ==
    /\ [][ \A t \in Threads :
             (/\ pc[t] = "Get_find" /\ pc'[t] # "Get_find"
              /\ local[t].op = "OnCalledStatic"
              /\ makers[local[t].function.maker].state = "destroyed")
             => (/\ pc'[t] = "done"
                 /\ local'[t].returned = "no_caller"
                 /\ local'[t].called = << >>) ]_vars
    /\ [](\A t \in Threads :
            (local[t].op = "OnCalledStatic" /\ pc[t] = "DoCallback")
            => local[t].callback_caller
                 = Just(MakeCaller(makers[local[t].function.maker].bv_factory_,
                                   makers[local[t].function.maker].callback)))

\* C13: a call is between its lookup and the host callback while the
\* destructor of its function's maker has returned on the other thread.
C13_Witness ==
    \E t, u \in Threads :
        /\ local[t].op = "OnCalledStatic"
        /\ pc[t] = "DoCallback"
        /\ Done(u, "~JSCallbackMaker")
        /\ local[u].maker = local[t].function.maker

\* The ids that Register assigned and whose entry has been erased since.
Retired == { id \in IssuedIds : id \notin DOMAIN callback_callers_ }

\* C14: an id that was registered and then unregistered stays out of the
\* map in every later state; no later Register returns it, the counter
\* being beyond it; and every later Get of it returns empty.
C14_UnregisteredIdNeverResolvesAgain ==
    /\ [][ Retired \subseteq Retired' ]_vars
    /\ [](\A id \in Retired : id < next_id_)
    /\ [][ \A t \in Threads :
             (pc[t] = "Register_store" /\ pc'[t] = "done")
             => local[t].callback_caller_id \notin Retired ]_vars
    /\ [][ \A t \in Threads :
             (/\ pc[t] = "Get_find" /\ pc'[t] # "Get_find"
              /\ local[t].callback_caller_id \in Retired)
             => IsEmpty(local'[t].callback_caller) ]_vars

\* C14: the first id was unregistered, a later Register has returned the
\* second id, which is in the map, and a Get of the first id has returned
\* empty.
C14_Witness ==
    \E t, u \in Threads :
        /\ Len(issued) = 2
        /\ issued[1] \in Retired
        /\ issued[2] \in DOMAIN callback_callers_
        /\ Done(u, "Register") /\ local[u].result = issued[2]
        /\ Done(t, "Get") /\ local[t].callback_caller_id = issued[1]
        /\ IsEmpty(local[t].callback_caller)

\* Thread t is inside DoCallback (entered from line 190 and not yet
\* returned) on the caller it looked up under id.
InDoCallback(t, id) ==
    /\ local[t].op = "OnCalledStatic"
    /\ pc[t] \in {"DoCallback", "callback_", "callback_return"}
    /\ local[t].callback_caller_id = id

\* The references to the caller registered under id that calls in flight
\* hold: those of the running frames and those of the suspended ones.
InFlightRefs(id) ==
    Cardinality({ t \in Threads : InDoCallback(t, id) })
    + Cardinality({ t \in Threads :
                      /\ ~ IsEmpty(stack[t])
                      /\ stack[t][1].local.callback_caller_id = id })

\* C15: the use count of every caller is the number of its owners, the map
\* entry and the calls in flight that hold the reference Get returned; so a
\* thread inside DoCallback holds a caller that is not released (and is the
\* caller its function's maker registered, unchanged), also when the entry
\* has been erased meanwhile, and a caller is released exactly when its
\* entry is erased and no call in flight holds it.
C15_CallerAliveWhileReferenced ==
    /\ \A id \in DOMAIN use_count :
          /\ use_count[id]
                = (IF id \in DOMAIN callback_callers_ THEN 1 ELSE 0)
                  + InFlightRefs(id)
          /\ (use_count[id] = 0)
                <=> (id \notin DOMAIN callback_callers_ /\ InFlightRefs(id) = 0)
    /\ \A t \in Threads, id \in IssuedIds :
          InDoCallback(t, id)
          => /\ id \in DOMAIN use_count
             /\ use_count[id] >= 1
             /\ local[t].callback_caller
                  = Just(MakeCaller(makers[local[t].function.maker].bv_factory_,
                                    makers[local[t].function.maker].callback))

\* C15: a host callback has destroyed the maker of the function being
\* called and is running on: the entry is erased and the call in flight
\* holds the last reference to the caller.
C15_Witness ==
    \E t \in Threads :
        /\ pc[t] = "callback_return"
        /\ makers[local[t].function.maker].state = "destroyed"
        /\ local[t].callback_caller_id \notin DOMAIN callback_callers_
        /\ use_count[local[t].callback_caller_id] = 1

\* C16: the data MakeJSCallback builds from a pair of ids is an array of two
\* BigInts, passes every check of OnCalledStatic, and decodes to the same
\* pair: element 0 as the caller id and element 1 as the callback id.
C16_DataRoundTrips ==
    \A t \in Threads :
        (local[t].op = "Codec" /\ pc[t] = "done")
        => /\ IsArray(local[t].data)
           /\ ArrayLength(local[t].data) = 2
           /\ IsBigInt(local[t].data.elems[1])
           /\ IsBigInt(local[t].data.elems[2])
           /\ Uint64Value(local[t].data.elems[1])
                = [ value |-> local[t].callback_caller_id, lossless |-> TRUE ]
           /\ Uint64Value(local[t].data.elems[2])
                = [ value |-> local[t].callback_id, lossless |-> TRUE ]
           /\ local[t].decoded
                = [ returned |-> "decoded",
                    callback_caller_id |-> local[t].callback_caller_id,
                    callback_id |-> local[t].callback_id ]

\* C16: the pair of caller id zero, whose BigInt has no digits, and of the
\* largest callback id has been encoded and decoded.
C16_Witness ==
    \E t \in Threads :
        /\ local[t].op = "Codec" /\ pc[t] = "done"
        /\ local[t].callback_caller_id = 0
        /\ local[t].data.elems[1].digits = << >>
        /\ local[t].callback_id = 2147483647
        /\ local[t].decoded.returned = "decoded"

\* The caller that maker m registered at its construction.
CallerOf(m) == MakeCaller(makers[m].bv_factory_, makers[m].callback)

\* C17: the id of every maker not destroyed maps to the caller that this
\* maker registered, whatever other makers exist or are destroyed; a call
\* of a function object holds only the caller of the function's own maker,
\* its host callbacks go to that maker's callback with a value made by that
\* maker's conversion facility; and the call reaches the callback when its
\* own maker is not destroyed, whether or not another maker is.
C17_RoutedToOwnMaker ==
    /\ \A m \in 1 .. Len(makers) :
          makers[m].state # "destroyed"
          => /\ makers[m].callback_caller_id_ \in DOMAIN callback_callers_
             /\ callback_callers_[makers[m].callback_caller_id_] = CallerOf(m)
    /\ \A t \in Threads :
          (local[t].op = "OnCalledStatic" /\ local[t].function.maker # 0)
          => LET a == local[t].function.maker
             IN  /\ local[t].callback_caller \in {Empty, Just(CallerOf(a))}
                 /\ \A i \in 1 .. Len(local[t].called) :
                       /\ local[t].called[i].callback = makers[a].callback
                       /\ local[t].called[i].args.factory = makers[a].bv_factory_
                 /\ (pc[t] = "done" /\ makers[a].state # "destroyed")
                       => Len(local[t].called) = 1

\* C17: a function object of one maker, which is alive, has been called and
\* has reached that maker's host callback, and another maker, constructed
\* with another callback and conversion facility, is destroyed.
C17_Witness ==
    \E t \in Threads, b \in 1 .. Len(makers) :
        /\ Done(t, "OnCalledStatic")
        /\ local[t].function.maker # b
        /\ makers[b].state = "destroyed"
        /\ makers[b].callback # makers[local[t].function.maker].callback
        /\ makers[b].bv_factory_ # makers[local[t].function.maker].bv_factory_
        /\ makers[local[t].function.maker].state = "alive"
        /\ Len(local[t].called) = 1

\* Every entry of the map other than id is the same in the next state.
OthersKept(id) ==
    \A k \in (DOMAIN callback_callers_) \ {id} :
        /\ k \in DOMAIN callback_callers_'
        /\ callback_callers_'[k] = callback_callers_[k]

\* C18: the step of Unregister(id) that erases leaves every entry other than
\* id, and next_id_, as they were, and adds none; the step of Get that looks
\* up leaves the map and next_id_ as they were; the step of Register that
\* stores adds one entry, under the id it returns, which was not a key
\* before, holding the caller given, advances next_id_ by one, and leaves
\* every entry that existed as it was; and no other step of the three
\* operations changes the map or next_id_.
C18_FrameConditions ==
    [][ \A t \in Threads :
          /\ (pc[t] = "Unregister_erase" /\ pc'[t] # pc[t])
             => /\ OthersKept(local[t].callback_caller_id)
                /\ DOMAIN callback_callers_' \subseteq DOMAIN callback_callers_
                /\ local[t].callback_caller_id \notin DOMAIN callback_callers_'
                /\ next_id_' = next_id_
          /\ (pc[t] = "Get_find" /\ pc'[t] # pc[t])
             => /\ callback_callers_' = callback_callers_
                /\ next_id_' = next_id_
          /\ (pc[t] = "Register_store" /\ pc'[t] # pc[t])
             => /\ local'[t].result \notin DOMAIN callback_callers_
                /\ DOMAIN callback_callers_'
                     = (DOMAIN callback_callers_) \cup {local'[t].result}
                /\ callback_callers_'[local'[t].result] = local[t].context_caller
                /\ OthersKept(local'[t].result)
                /\ next_id_' = next_id_ + 1
          /\ (pc[t] \in {"idle", "done", "Register_lock", "Register_load",
                         "Unregister_lock", "Get_lock"}
              /\ pc'[t] # pc[t])
             => /\ callback_callers_' = callback_callers_
                /\ next_id_' = next_id_ ]_vars

\* C18: with two ids assigned, an Unregister has erased the entry of one,
\* and a Get of the other has found its entry, which is still in the map.
C18_Witness ==
    \E t, u \in Threads :
        /\ Len(issued) = 2
        /\ Done(t, "Unregister") /\ local[t].erased = 1
        /\ Done(u, "Get")
        /\ local[u].callback_caller_id # local[t].callback_caller_id
        /\ ~ IsEmpty(local[u].callback_caller)
        /\ local[u].callback_caller_id \in DOMAIN callback_callers_

====
